---- MODULE Spec2Model ----
(***************************************************************************)
(* Better-Tasks: the task / customer / user routes of the Express server,  *)
(* the auth middleware, and the notification and activity side effects.    *)
(* Every route handler is one action; a detached logActivity save is a     *)
(* separate step because the handler does not await it.                    *)
(***************************************************************************)
EXTENDS Integers, Sequences, FiniteSets, TLC

VARIABLES users, tasks, customers, calls, notifications, activities, detached, pending,
          req, res

vars == <<users, tasks, customers, calls, notifications, activities, detached, pending,
         req, res>>

(***************************************************************************)
(* Bounds of the model                                                     *)
(***************************************************************************)
MaxTasks == 3          \* task ids 1..MaxTasks
MaxComments == 2       \* comments stored in all, before addComment is cut off
MaxAttachments == 2    \* attachments stored in all, before upload is cut off
MaxNotifications == 2  \* stored notifications
MaxActivities == 2     \* stored activity records
MaxDetached == 2       \* activity saves in flight

MaxFiles == 2          \* files of one upload request
MaxCustomers == 3      \* customer ids c1..c<MaxCustomers>
MaxContacts == 3       \* contacts of one customer body
SeedTasks == 2         \* tasks the seed script stores
MaxCalls == 3          \* call ids 1..MaxCalls
SeedCalls == 2         \* calls the seed script stores
MaxPending == 2        \* handlers suspended between their read and their write
MaxRegistered == 1     \* users added to the seeded ones

\* which of a handler's createNotification calls the store refuses (0: none)
FailAts == 0..2

UserIds == {"a", "m", "u1", "u2"}
CustomerIds == {"c1", "c2"}
TaskIds == 1..MaxTasks

Roles == {"admin", "manager", "user"}
Statuses == {"todo", "in-progress", "completed"}
Priorities == {"low", "medium", "high", "urgent"}

\* an absent (undefined or empty, hence falsy) string or id of a request
Absent == ""
\* an id that resolves to no document
Ghost == "ghost"

(***************************************************************************)
(* Text: a string is a sequence of characters, so that the case-insensitive*)
(* regular-expression match of the list routes is computed, not assumed.   *)
(***************************************************************************)
toLowerCase(c) ==
    CASE c = "C" -> "c" [] c = "R" -> "r" [] c = "M" -> "m"
      [] c = "O" -> "o" [] c = "P" -> "p" [] c = "S" -> "s"
      [] OTHER -> c

\* { field: { $regex: pattern, $options: 'i' } } for a pattern of plain
\* characters: the pattern occurs in the field, ignoring case
regexMatch(pattern, text) ==
    \E k \in 0..(Len(text) - Len(pattern)) :
        \A i \in 1..Len(pattern) : toLowerCase(text[k + i]) = toLowerCase(pattern[i])

TitleCrm == <<"C", "R", "M">>
TitleOps == <<"o", "p", "s">>
DescAdd == <<"a", "d", "d">>
DescCrm == <<"c", "r", "m">>
CatDev == <<"d", "e", "v">>
\* search terms of a request; the empty string is falsy, so no search
Searches == {<<>>, <<"c", "r">>, <<"O", "P">>}

(***************************************************************************)
(* JavaScript values passed to authorize(...roles): a string or an array.  *)
(***************************************************************************)
Str(s) == [t |-> "string", s |-> s, a |-> <<>>]
Arr(xs) == [t |-> "array", s |-> "", a |-> xs]

Bool(b) == [t |-> "boolean", s |-> IF b THEN "true" ELSE "false", a |-> <<>>]
Undefined == [t |-> "undefined", s |-> "", a |-> <<>>]

\* ToBoolean of a value, as in `if (v)` and `v && ...`
truthy(v) ==
    CASE v.t = "undefined" -> FALSE
      [] v.t = "boolean" -> v.s = "true"
      [] v.t = "string" -> v.s # ""
      [] OTHER -> TRUE

\* v === true
strictlyTrue(v) == v.t = "boolean" /\ v.s = "true"

\* express-validator's isBoolean(): the value, turned into a string, is one of
\* 'true', 'false', '1', '0'
isBoolean(v) == v.t \in {"boolean", "string"} /\ v.s \in {"true", "false", "1", "0"}

\* the cast Mongoose applies to a value of a Boolean path that isBoolean lets
\* through
castBoolean(v) == v.s \in {"true", "1"}

\* Array.prototype.includes(x) for a string x: SameValueZero, so an element
\* that is itself an array never equals a string.
includes(arr, x) == \E i \in DOMAIN arr : arr[i].t = "string" /\ arr[i].s = x

(***************************************************************************)
(* Middleware                                                              *)
(***************************************************************************)
authenticateMutant(u) == u \in DOMAIN users

\* authenticate, once the token is verified: the token's user must exist and
\* be active
authenticate(u) == u \in DOMAIN users /\ users[u].isActive

\* authorize(...roles): roles is the array of the call's arguments
authorize(roles, u) == includes(roles, users[u].role)

\* the argument lists the routes pass to authorize
TaskRouteRoles == << Arr(<<"admin", "manager">>) >>
CustomerRouteRoles == << Str("admin"), Str("manager") >>
UserRouteRoles == << Str("admin") >>

\* canAccessTask(user, task) called as a helper with a user and a task
canAccessTask(u, task) ==
    \/ users[u].role = "admin"
    \/ users[u].role = "manager"
    \/ task.createdBy = u
    \/ task.assignedTo = u

(***************************************************************************)
(* The stores after the seed script                                        *)
(***************************************************************************)
\* bcrypt.hash and bcrypt.compare: a hash is no password, and a password
\* matches the hash made of it and no other
hash(password) == <<"bcrypt", password>>
comparePassword(password, passwordHash) == passwordHash = hash(password)

\* the e-mail address the seeded user u has; addresses are kept as
\* normalizeEmail leaves them
seedEmail(u) ==
    CASE u = "a" -> "a@x.io" [] u = "m" -> "m@x.io" [] u = "u1" -> "u1@x.io"
      [] OTHER -> "u2@x.io"

SeedUsers ==
    [u \in UserIds |->
        [name |-> "Ann", email |-> seedEmail(u), passwordHash |-> hash("secret"),
         role |-> CASE u = "a" -> "admin" [] u = "m" -> "manager" [] OTHER -> "user",
         isActive |-> TRUE]]

SeedCustomers ==
    [c \in CustomerIds |->
        [companyName |-> IF c = "c1" THEN <<"C", "R", "M">> ELSE <<"o", "p", "s">>,
         contacts |-> IF c = "c1" THEN <<TRUE, FALSE>> ELSE <<TRUE>>,
         isActive |-> TRUE,
         createdBy |-> IF c = "c1" THEN "a" ELSE "m"]]

\* the seeded task number i, assigned to user assignee
SeedTask(i, assignee) ==
    [title |-> IF i % 2 = 1 THEN TitleCrm ELSE TitleOps,
     description |-> IF i % 2 = 1 THEN DescAdd ELSE DescCrm,
     category |-> CatDev,
     priority |-> IF i % 2 = 1 THEN "high" ELSE "urgent",
     status |-> IF i % 2 = 1 THEN "in-progress" ELSE "todo",
     dueDate |-> 1,
     assignedTo |-> assignee,
     customer |-> IF i % 2 = 1 THEN "c1" ELSE Absent,
     createdBy |-> IF i % 2 = 1 THEN "m" ELSE "a",
     comments |-> <<>>,
     attachments |-> <<>>]

\* the seeded call number i: of a call the model keeps the customer, the
\* user who logged it, the summary and the follow-up fields (followUpDate 0:
\* none)
SeedCall(i) ==
    [customer |-> IF i % 2 = 1 THEN "c1" ELSE "c2",
     user |-> IF i % 2 = 1 THEN "m" ELSE "u1",
     summary |-> IF i % 2 = 1 THEN TitleCrm ELSE TitleOps,
     followUpRequired |-> i % 2 = 1,
     followUpDate |-> IF i % 2 = 1 THEN 7 ELSE 0]

\* a request body with every updatable task field undefined
NoPatch ==
    [title |-> <<>>, description |-> <<>>, category |-> <<>>, priority |-> Absent,
     status |-> Absent, dueDate |-> 0, assignedTo |-> Absent, customer |-> Absent]

\* req: the request the server handled last; res: what it answered, with the
\* notifications the handler saved and the activity records it passed to
\* logActivity while handling it
NoReq == [op |-> "none", user |-> Absent, task |-> 0, target |-> Absent,
          call |-> 0, patch |-> NoPatch, search |-> <<>>, resources |-> {}, n |-> 0]
NoRes == [status |-> 0, tasks |-> <<>>, customers |-> <<>>, calls |-> <<>>,
          notified |-> <<>>, logged |-> <<>>]

Request(op, u) == [NoReq EXCEPT !.op = op, !.user = u]
Response(status) == [NoRes EXCEPT !.status = status]

\* a response that leaves every store as it was
Reply(r, s) ==
    /\ req' = r
    /\ res' = s
    /\ UNCHANGED <<users, tasks, customers, notifications, activities, detached, calls, pending>>

\* a bearer token: the userId of its payload, whether its signature is the
\* server's and whether it has expired; NoToken is a request without one
Token(userId, signed, expired) == [userId |-> userId, signed |-> signed, expired |-> expired]
NoToken == Token(Absent, FALSE, FALSE)

\* jwt.verify(token, JWT_SECRET): returns the payload, or throws
jwtVerify(token) == token.signed /\ ~token.expired

\* authenticate up to jwt.verify, in front of a route: without a token, or
\* when jwt.verify throws, the request is answered 401 and the route's handler
\* is not run; otherwise handler goes on with the payload's userId
Handle(token, handler) ==
    IF token = NoToken \/ ~jwtVerify(token)
    THEN Reply(Request("rejected", token.userId), Response(401))
    ELSE handler

Init ==
    /\ users = SeedUsers
    /\ customers = SeedCustomers
    /\ \E assignee \in [1..SeedTasks -> {"u1", "m"}] :
           tasks = [i \in 1..SeedTasks |-> SeedTask(i, assignee[i])]
    /\ calls = [i \in 1..SeedCalls |-> SeedCall(i)]
    /\ notifications = <<>>
    /\ activities = <<>>
    /\ detached = <<>>
    /\ pending = {}
    /\ req = NoReq
    /\ res = NoRes

(***************************************************************************)
(* GET /api/tasks                                                          *)
(***************************************************************************)
RECURSIVE sortAsc(_)
sortAsc(S) ==
    IF S = {} THEN <<>>
    ELSE LET least == CHOOSE x \in S : \A y \in S : x <= y
         IN <<least>> \o sortAsc(S \ {least})

\* the lengths of the sequences f[i], summed
RECURSIVE totalLen(_)
totalLen(f) ==
    IF DOMAIN f = {} THEN 0
    ELSE LET i == CHOOSE j \in DOMAIN f : TRUE
         IN Len(f[i]) + totalLen([j \in DOMAIN f \ {i} |-> f[j]])

reverse(q) == [i \in 1..Len(q) |-> q[Len(q) + 1 - i]]

\* .sort(...).limit(limit).skip((page - 1) * limit) over documents ordered by
\* creation, i.e. by id
pageOf(S, sortOrder, page, limit) ==
    LET sorted == IF sortOrder = "asc" THEN sortAsc(S) ELSE reverse(sortAsc(S))
        skip == (page - 1) * limit
        last == IF skip + limit < Len(sorted) THEN skip + limit ELSE Len(sorted)
    IN SubSeq(sorted, skip + 1, last)

\* the $or the search term puts in the query
searchOr(search, t) ==
    \/ regexMatch(search, t.title)
    \/ regexMatch(search, t.description)
    \/ regexMatch(search, t.category)

\* the $or the role filter puts in the query
roleOr(u, t) == t.assignedTo = u \/ t.createdBy = u

taskQueryMutant(u, status, priority, assignedTo, customer, search, t) ==
    /\ status # Absent => t.status = status
    /\ priority # Absent => t.priority = priority
    /\ assignedTo # Absent => t.assignedTo = assignedTo
    /\ customer # Absent => t.customer = customer
    /\ IF search # <<>> THEN searchOr(search, t)
       ELSE users[u].role = "user" => roleOr(u, t)

\* whether task t matches the query object the handler builds: the role
\* filter is assigned to query.$or after the search filter, replacing it
taskQuery(u, status, priority, assignedTo, customer, search, t) ==
    /\ status # Absent => t.status = status
    /\ priority # Absent => t.priority = priority
    /\ assignedTo # Absent => t.assignedTo = assignedTo
    /\ customer # Absent => t.customer = customer
    /\ IF users[u].role = "user" THEN roleOr(u, t)
       ELSE search # <<>> => searchOr(search, t)

ListTasks(u, status, priority, assignedTo, customer, search, sortOrder, page, limit) ==
    LET r == [Request("listTasks", u) EXCEPT !.search = search]
        found == {id \in DOMAIN tasks :
                     taskQuery(u, status, priority, assignedTo, customer, search, tasks[id])}
    IN IF ~authenticate(u) THEN Reply(r, Response(401))
       ELSE Reply(r, [Response(200) EXCEPT !.tasks = pageOf(found, sortOrder, page, limit)])

(***************************************************************************)
(* GET /api/tasks/:id                                                      *)
(***************************************************************************)
GetTask(u, id) ==
    LET r == [Request("getTask", u) EXCEPT !.task = id]
    IN IF ~authenticate(u) THEN Reply(r, Response(401))
       ELSE IF id \notin DOMAIN tasks THEN Reply(r, Response(404))
       ELSE IF users[u].role = "user"
               /\ ~(tasks[id].assignedTo = u \/ tasks[id].createdBy = u)
            THEN Reply(r, Response(403))
       ELSE Reply(r, [Response(200) EXCEPT !.tasks = <<id>>])

(***************************************************************************)
(* GET /api/search                                                         *)
(***************************************************************************)
\* .limit(10) of each of the three finds
SearchLimit == 10

\* { $text: { $search: q } } over a text index of the given fields, for a q
\* and fields of one word each: some field is the word q, ignoring case
textSearch(q, fields) ==
    \E k \in DOMAIN fields :
        /\ Len(fields[k]) = Len(q)
        /\ \A i \in DOMAIN q : toLowerCase(fields[k][i]) = toLowerCase(q[i])

unrestricted(u) == users[u].role = "admin" \/ users[u].role = "manager"

searchTaskQueryMutant(u, q, t) ==
    textSearch(q, <<t.title, t.description, t.category>>)

searchTaskQuery(u, q, t) ==
    /\ textSearch(q, <<t.title, t.description, t.category>>)
    /\ unrestricted(u) \/ t.createdBy = u \/ t.assignedTo = u

searchCustomerQuery(u, q, c) ==
    /\ textSearch(q, <<c.companyName>>)
    /\ unrestricted(u) \/ c.createdBy = u

searchCallQuery(u, q, c) ==
    /\ textSearch(q, <<c.summary>>)
    /\ unrestricted(u) \/ c.user = u

\* the first SearchLimit documents of a find; the order among the matches is
\* that of their ids
limited(S) == SubSeq(sortAsc(S), 1, IF Cardinality(S) < SearchLimit
                                       THEN Cardinality(S) ELSE SearchLimit)

\* the id of the n-th customer the store was given
customerId(n) ==
    CASE n = 1 -> "c1" [] n = 2 -> "c2" [] n = 3 -> "c3" [] n = 4 -> "c4" [] OTHER -> "c5"

\* the number n of the customer with id c, c = customerId(n)
customerNumber(c) ==
    CASE c = "c1" -> 1 [] c = "c2" -> 2 [] c = "c3" -> 3 [] c = "c4" -> 4 [] OTHER -> 5

\* resources = {} is a request without the resources parameter
Search(u, q, resources) ==
    LET r == [Request("search", u) EXCEPT !.search = q, !.resources = resources]
        resourceTypes == IF resources # {} THEN resources
                         ELSE {"tasks", "customers", "calls"}
        foundTasks == {id \in DOMAIN tasks : searchTaskQuery(u, q, tasks[id])}
        foundCustomers == {customerNumber(c) : c \in
                              {d \in DOMAIN customers : searchCustomerQuery(u, q, customers[d])}}
        foundCalls == {id \in DOMAIN calls : searchCallQuery(u, q, calls[id])}
        numbers == limited(foundCustomers)
    IN IF ~authenticate(u) THEN Reply(r, Response(401))
       ELSE IF q = <<>> THEN Reply(r, Response(400))
       ELSE Reply(r, [Response(200) EXCEPT
               !.tasks = IF "tasks" \in resourceTypes THEN limited(foundTasks) ELSE <<>>,
               !.customers = IF "customers" \in resourceTypes
                             THEN [k \in DOMAIN numbers |-> customerId(numbers[k])]
                             ELSE <<>>,
               !.calls = IF "calls" \in resourceTypes THEN limited(foundCalls) ELSE <<>>])

\* whether customer c matches the query object of GET /api/customers
customerQuery(search, c) ==
    /\ c.isActive
    /\ search # <<>> => regexMatch(search, c.companyName)

\* GET /api/customers; the page is cut from the customers in the order of
\* their numbers
ListCustomers(u, search, sortOrder, page, limit) ==
    LET r == [Request("listCustomers", u) EXCEPT !.search = search]
        found == {customerNumber(c) : c \in
                     {d \in DOMAIN customers : customerQuery(search, customers[d])}}
        numbers == pageOf(found, sortOrder, page, limit)
    IN IF ~authenticate(u) THEN Reply(r, Response(401))
       ELSE Reply(r, [Response(200) EXCEPT
               !.customers = [k \in DOMAIN numbers |-> customerId(numbers[k])]])

(***************************************************************************)
(* Side effects                                                            *)
(***************************************************************************)
\* the enum of the Notification schema's type and of the Activity schema's
\* action: a document with another value fails validation on save
NotificationTypes == {"NEW_TASK", "TASK_UPDATED", "COMMENT_ADDED", "TASK_DUE", "CALL_LOGGED"}
ActivityActions ==
    {"CREATE_TASK", "UPDATE_TASK", "DELETE_TASK", "ADD_COMMENT", "UPLOAD_ATTACHMENT",
     "CREATE_CUSTOMER", "UPDATE_CUSTOMER", "DELETE_CUSTOMER",
     "CREATE_CALL", "UPDATE_CALL", "DELETE_CALL",
     "USER_LOGIN", "USER_LOGOUT", "UPDATE_PROFILE"}

Notification(user, type, task) ==
    [user |-> user, type |-> type, task |-> task, isRead |-> FALSE]

\* createNotification(data): the document is saved, or the save fails (the
\* store refuses the write, or the type is not in the enum) and the function
\* throws. dbOk is whether the store accepts the write.
createNotificationSaves(n, dbOk) == dbOk /\ n.type \in NotificationTypes

\* the notifications of ns saved before the first failing save; failAt = 0
\* means the store accepts every write, failAt = k that it refuses the k-th
savedBeforeThrow(ns, failAt) ==
    LET bad == {k \in 1..Len(ns) : ~createNotificationSaves(ns[k], k # failAt)}
    IN IF bad = {} THEN ns
       ELSE SubSeq(ns, 1, (CHOOSE k \in bad : \A j \in bad : k <= j) - 1)

\* whether one of the awaited createNotification calls throws
notificationThrows(ns, failAt) == Len(savedBeforeThrow(ns, failAt)) < Len(ns)

\* entityId is a task id (taskId) or the id of a customer (otherId)
Activity(user, action, entity, taskId, otherId) ==
    [user |-> user, action |-> action, entity |-> entity,
     taskId |-> taskId, otherId |-> otherId,
     updatedFields |-> {}, previousValues |-> NoPatch]

\* logActivity(data): starts the save and returns without awaiting it
logActivity(data) == Append(detached, data)

\* the detached save of logActivity: it is persisted, or it fails (the store
\* refuses the write, or the action is not in the enum), is logged to the
\* console and dropped
SaveActivity(i, dbOk) ==
    /\ i \in DOMAIN detached
    /\ activities' = IF dbOk /\ detached[i].action \in ActivityActions
                      THEN Append(activities, detached[i])
                      ELSE activities
    /\ Len(activities') <= MaxActivities
    /\ detached' = [j \in 1..(Len(detached) - 1) |->
                        IF j < i THEN detached[j] ELSE detached[j + 1]]
    /\ req' = Request("saveActivity", detached[i].user)
    /\ res' = res
    /\ UNCHANGED <<users, tasks, customers, notifications, calls, pending>>

(***************************************************************************)
(* The daily reminder job                                                  *)
(***************************************************************************)
\* the statuses the job's query excludes
ReminderExcluded == {"Completed", "Archived"}

\* Task.find of the job, for a run at day now (dates are counted in days, so
\* now <= dueDate < tomorrow is dueDate = now). The Task schema has no
\* isDeleted path: with strictQuery the filter on it is dropped, without it
\* the filter is sent to the store, where no task carries the field and none
\* matches isDeleted: false.
upcomingTasks(now, strictQuery) ==
    {id \in DOMAIN tasks :
        /\ now <= tasks[id].dueDate /\ tasks[id].dueDate < now + 1
        /\ tasks[id].status \notin ReminderExcluded
        /\ strictQuery}

\* sendTaskReminders: one awaited createNotification per task found whose
\* assignee resolves; the first that throws ends the run in the catch
SendTaskReminders(now, strictQuery, failAt) ==
    LET found == sortAsc({id \in upcomingTasks(now, strictQuery) :
                             tasks[id].assignedTo \in DOMAIN users})
        ns == [k \in DOMAIN found |->
                  Notification(tasks[found[k]].assignedTo, "TASK_REMINDER", found[k])]
        saved == savedBeforeThrow(ns, failAt)
    IN /\ Len(notifications) + Len(ns) <= MaxNotifications
       /\ notifications' = notifications \o saved
       /\ req' = [Request("sendTaskReminders", Absent) EXCEPT !.n = now]
       /\ res' = [NoRes EXCEPT !.notified = saved]
       /\ UNCHANGED <<users, tasks, customers, calls, activities, detached, pending>>

(***************************************************************************)
(* /api/notifications: a notification's id is its place in the store      *)
(***************************************************************************)
markRead(n) == [n EXCEPT !.isRead = TRUE]

findOneMutant(u, id) == id \in DOMAIN notifications

\* the filter { _id: req.params.id, user: req.user._id } of findOneAndUpdate
findOne(u, id) == id \in DOMAIN notifications /\ notifications[id].user = u

\* PATCH /:id/read: findOneAndUpdate({ _id, user }, { isRead: true })
MarkRead(u, id) ==
    LET r == [Request("markRead", u) EXCEPT !.n = id]
    IN IF ~authenticate(u) THEN Reply(r, Response(401))
       ELSE IF ~findOne(u, id) THEN Reply(r, Response(404))
       ELSE /\ notifications' = [notifications EXCEPT ![id] = markRead(@)]
            /\ req' = r
            /\ res' = Response(200)
            /\ UNCHANGED <<users, tasks, customers, calls, activities, detached, pending>>

updateManyMutant(ns, u) ==
    LET matched == {k \in DOMAIN ns : ns[k].user = u /\ ~ns[k].isRead}
    IN [k \in DOMAIN ns |->
           IF k \in matched /\ \A j \in matched : k <= j THEN markRead(ns[k]) ELSE ns[k]]

\* Notification.updateMany({ user, isRead: false }, { isRead: true })
updateMany(ns, u) ==
    [k \in DOMAIN ns |-> IF ns[k].user = u /\ ~ns[k].isRead THEN markRead(ns[k]) ELSE ns[k]]

\* PATCH /read-all
MarkAllRead(u) ==
    LET r == Request("markAllRead", u)
    IN IF ~authenticate(u) THEN Reply(r, Response(401))
       ELSE /\ notifications' = updateMany(notifications, u)
            /\ req' = r
            /\ res' = Response(200)
            /\ UNCHANGED <<users, tasks, customers, calls, activities, detached, pending>>

(***************************************************************************)
(* POST /api/tasks                                                         *)
(***************************************************************************)
userIsActive(id) == id \in DOMAIN users /\ users[id].isActive
customerIsActive(id) == id \in DOMAIN customers /\ customers[id].isActive

\* the id the store gives the next task
newTaskId == CHOOSE id \in TaskIds \ DOMAIN tasks : \A j \in TaskIds \ DOMAIN tasks : id <= j

\* the status the route answers before it touches the store (0: it goes on)
createTaskGate(u, body) ==
    IF ~authenticate(u) THEN 401
    ELSE IF ~authorize(TaskRouteRoles, u) THEN 403
    ELSE IF ~userIsActive(body.assignedTo) THEN 400
    ELSE IF body.customer # Absent /\ ~customerIsActive(body.customer) THEN 400
    ELSE 0

CreateTask(u, body) ==
    LET r == [Request("createTask", u) EXCEPT !.patch = body]
        gate == createTaskGate(u, body)
        id == newTaskId
        task == [title |-> body.title, description |-> body.description,
                 category |-> body.category, priority |-> body.priority,
                 status |-> "todo", dueDate |-> body.dueDate,
                 assignedTo |-> body.assignedTo, customer |-> body.customer,
                 createdBy |-> u, comments |-> <<>>, attachments |-> <<>>]
        ns == IF u # body.assignedTo
              THEN <<Notification(body.assignedTo, "NEW_TASK", id)>>
              ELSE <<>>
        act == Activity(u, "CREATE_TASK", "Task", id, Absent)
    IN IF gate # 0 THEN Reply(r, Response(gate))
       ELSE \E failAt \in FailAts :
            LET saved == savedBeforeThrow(ns, failAt) IN
            /\ TaskIds \ DOMAIN tasks # {}
            /\ Len(notifications) + Len(ns) <= MaxNotifications
            /\ Len(detached) < MaxDetached
            /\ tasks' = [i \in DOMAIN tasks \cup {id} |->
                            IF i = id THEN task ELSE tasks[i]]
            /\ notifications' = notifications \o saved
            /\ req' = [r EXCEPT !.task = id]
            /\ IF notificationThrows(ns, failAt)
               THEN /\ res' = [Response(500) EXCEPT !.notified = saved]
                    /\ detached' = detached
               ELSE /\ res' = [Response(201) EXCEPT !.tasks = <<id>>,
                                    !.notified = saved, !.logged = <<act>>]
                    /\ detached' = logActivity(act)
            /\ UNCHANGED <<users, customers, activities, calls, pending>>

(***************************************************************************)
(* PUT /api/tasks/:id                                                      *)
(***************************************************************************)
\* the fields of the body that are not undefined
updatedFields(patch) ==
    {f \in DOMAIN NoPatch : patch[f] # NoPatch[f]}

\* findByIdAndUpdate(taskId, updates): only the given fields are set
applyUpdates(task, patch) ==
    LET set(f) == IF f \in updatedFields(patch) THEN patch[f] ELSE task[f]
    IN [task EXCEPT !.title = set("title"), !.description = set("description"),
                    !.category = set("category"), !.priority = set("priority"),
                    !.status = set("status"), !.dueDate = set("dueDate"),
                    !.assignedTo = set("assignedTo"), !.customer = set("customer")]

\* details.previousValues of the UPDATE_TASK record: for each field of the
\* body, the value of the task document the handler read before its update
previousValues(task, patch) ==
    [f \in DOMAIN NoPatch |-> IF f \in updatedFields(patch) THEN task[f] ELSE NoPatch[f]]

\* the record the update handler hands to logActivity
updateActivity(u, id, task, patch) ==
    [Activity(u, "UPDATE_TASK", "Task", id, Absent)
        EXCEPT !.updatedFields = updatedFields(patch),
               !.previousValues = previousValues(task, patch)]

updateTaskGateMutant(u, id, patch) ==
    IF ~authenticate(u) THEN 401
    ELSE IF id \notin DOMAIN tasks THEN 404
    ELSE IF patch.assignedTo # Absent /\ ~userIsActive(patch.assignedTo) THEN 400
    ELSE IF patch.customer # Absent /\ ~customerIsActive(patch.customer) THEN 400
    ELSE 0

\* the status the route answers before it touches the store (0: it goes on)
updateTaskGate(u, id, patch) ==
    IF ~authenticate(u) THEN 401
    ELSE IF ~authorize(TaskRouteRoles, u) THEN 403
    ELSE IF id \notin DOMAIN tasks THEN 404
    ELSE IF ~canAccessTask(u, tasks[id]) THEN 403
    ELSE IF patch.assignedTo # Absent /\ ~userIsActive(patch.assignedTo) THEN 400
    ELSE IF patch.customer # Absent /\ ~customerIsActive(patch.customer) THEN 400
    ELSE 0

\* the notification the handler builds after the update, if any: old is the
\* task read before the update, new the updated document
updateNotification(u, id, old, new, patch) ==
    IF new.assignedTo = u THEN <<>>
    ELSE IF patch.assignedTo # Absent /\ old.assignedTo # patch.assignedTo
         THEN <<Notification(new.assignedTo, "TASK_UPDATED", id)>>
    ELSE IF \/ patch.status # Absent /\ old.status # patch.status
            \/ patch.priority # Absent /\ old.priority # patch.priority
            \/ patch.dueDate # 0 /\ old.dueDate # patch.dueDate
         THEN <<Notification(new.assignedTo, "TASK_UPDATED", id)>>
    ELSE <<>>

UpdateTask(u, id, patch) ==
    LET r == [Request("updateTask", u) EXCEPT !.task = id, !.patch = patch]
        gate == updateTaskGate(u, id, patch)
        old == tasks[id]
        new == applyUpdates(old, patch)
        ns == updateNotification(u, id, old, new, patch)
        act == updateActivity(u, id, old, patch)
        logs == IF updatedFields(patch) # {} THEN <<act>> ELSE <<>>
    IN IF gate # 0 THEN Reply(r, Response(gate))
       ELSE \E failAt \in FailAts :
            LET saved == savedBeforeThrow(ns, failAt) IN
            /\ Len(notifications) + Len(ns) <= MaxNotifications
            /\ Len(detached) + Len(logs) <= MaxDetached
            /\ tasks' = [tasks EXCEPT ![id] = new]
            /\ notifications' = notifications \o saved
            /\ req' = r
            /\ IF notificationThrows(ns, failAt)
               THEN /\ res' = [Response(500) EXCEPT !.notified = saved]
                    /\ detached' = detached
               ELSE /\ res' = [Response(200) EXCEPT !.tasks = <<id>>,
                                    !.notified = saved, !.logged = logs]
                    /\ detached' = detached \o logs
            /\ UNCHANGED <<users, customers, activities, calls, pending>>

(***************************************************************************)
(* POST /api/tasks/:id/comments                                            *)
(***************************************************************************)
usersToNotifyMutant(author, task) ==
    LET first == IF task.createdBy # author THEN <<task.createdBy>> ELSE <<>>
    IN IF task.assignedTo # author
       THEN Append(first, task.assignedTo)
       ELSE first

\* usersToNotify: a Set filled with the creator, then the assignee, each
\* unless it is the author; iterated in insertion order
usersToNotify(author, task) ==
    LET first == IF task.createdBy # author THEN <<task.createdBy>> ELSE <<>>
    IN IF task.assignedTo # author /\ task.assignedTo # task.createdBy
       THEN Append(first, task.assignedTo)
       ELSE first

\* the status the route answers before it touches the store (0: it goes on)
taskAccessGate(u, id) ==
    IF ~authenticate(u) THEN 401
    ELSE IF id \notin DOMAIN tasks THEN 404
    ELSE IF ~canAccessTask(u, tasks[id]) THEN 403
    ELSE 0

AddComment(u, id) ==
    LET r == [Request("addComment", u) EXCEPT !.task = id]
        gate == taskAccessGate(u, id)
        to == usersToNotify(u, tasks[id])
        ns == [k \in 1..Len(to) |-> Notification(to[k], "COMMENT_ADDED", id)]
        act == Activity(u, "ADD_COMMENT", "Task", id, Absent)
    IN IF gate # 0 THEN Reply(r, Response(gate))
       ELSE \E failAt \in FailAts :
            LET saved == savedBeforeThrow(ns, failAt) IN
            /\ totalLen([i \in DOMAIN tasks |-> tasks[i].comments]) < MaxComments
            /\ Len(notifications) + Len(ns) <= MaxNotifications
            /\ Len(detached) < MaxDetached
            /\ tasks' = [tasks EXCEPT ![id].comments =
                             Append(@, [text |-> "note", author |-> u])]
            /\ notifications' = notifications \o saved
            /\ req' = r
            /\ IF notificationThrows(ns, failAt)
               THEN /\ res' = [Response(500) EXCEPT !.notified = saved]
                    /\ detached' = detached
               ELSE /\ res' = [Response(200) EXCEPT !.tasks = <<id>>,
                                    !.notified = saved, !.logged = <<act>>]
                    /\ detached' = logActivity(act)
            /\ UNCHANGED <<users, customers, activities, calls, pending>>

(***************************************************************************)
(* POST /api/tasks/:id/attachments and DELETE .../attachments/:attachmentId*)
(***************************************************************************)
\* upload.array('attachments', 5)
MaxUploadFiles == 5

\* the inline permission check of the two attachment routes
attachmentGate(u, id) ==
    IF ~authenticate(u) THEN 401
    ELSE IF id \notin DOMAIN tasks THEN 404
    ELSE IF users[u].role = "user"
            /\ ~(tasks[id].assignedTo = u \/ tasks[id].createdBy = u) THEN 403
    ELSE 0

\* the _id the store gives the k-th new attachment of a task
RECURSIVE newAttachmentIds(_, _)
newAttachmentIds(used, n) ==
    IF n = 0 THEN <<>>
    ELSE LET id == CHOOSE i \in 1..(Cardinality(used) + 1) : i \notin used
         IN <<id>> \o newAttachmentIds(used \cup {id}, n - 1)

range(q) == {q[i] : i \in DOMAIN q}

AddAttachment(u, id, n) ==
    LET r == [Request("addAttachment", u) EXCEPT !.task = id, !.n = n]
        gate == attachmentGate(u, id)
        files == newAttachmentIds(range(tasks[id].attachments), n)
        logs == [k \in 1..n |-> Activity(u, "UPLOAD_ATTACHMENT", "Task", id, Absent)]
    IN IF gate # 0 THEN Reply(r, Response(gate))
       ELSE IF n = 0 THEN Reply(r, Response(400))
       ELSE /\ n <= MaxUploadFiles
            /\ totalLen([i \in DOMAIN tasks |-> tasks[i].attachments]) + n <= MaxAttachments
            /\ Len(detached) + n <= MaxDetached
            /\ tasks' = [tasks EXCEPT ![id].attachments = @ \o files]
            /\ detached' = detached \o logs
            /\ req' = r
            /\ res' = [Response(200) EXCEPT !.tasks = <<id>>, !.logged = logs]
            /\ UNCHANGED <<users, customers, notifications, activities, calls, pending>>

RemoveAttachment(u, id, attachmentId) ==
    LET r == [Request("removeAttachment", u) EXCEPT !.task = id, !.n = attachmentId]
        gate == attachmentGate(u, id)
    IN IF gate # 0 THEN Reply(r, Response(gate))
       ELSE IF attachmentId \notin range(tasks[id].attachments) THEN Reply(r, Response(404))
       ELSE /\ tasks' = [tasks EXCEPT ![id].attachments =
                             SelectSeq(@, LAMBDA a : a # attachmentId)]
            /\ req' = r
            /\ res' = [Response(200) EXCEPT !.tasks = <<id>>]
            /\ UNCHANGED <<users, customers, notifications, activities, detached, calls, pending>>

(***************************************************************************)
(* PATCH /api/tasks/:id/status                                             *)
(***************************************************************************)
\* the statuses the route's validator accepts
StatusRouteValues == {"pending", "in-progress", "completed"}

\* canAccessTask mounted as a middleware: Express calls it with (req, res,
\* next), so its user is the request and its task the response object. The
\* request has no role, and reading createdBy.toString() of the response
\* throws a TypeError, which Express turns into an error response; next() is
\* never called.
canAccessTaskMiddleware == "TypeError"

UpdateTaskStatus(u, id, status) ==
    LET r == [Request("updateTaskStatus", u) EXCEPT !.task = id, !.patch.status = status]
    IN IF ~authenticate(u) THEN Reply(r, Response(401))
       ELSE IF canAccessTaskMiddleware # "next" THEN Reply(r, Response(500))
       ELSE IF status \notin StatusRouteValues THEN Reply(r, Response(400))
       \* req.task is set nowhere: assigning its status throws, caught as 500
       ELSE Reply(r, Response(500))

(***************************************************************************)
(* DELETE /api/tasks/:id                                                   *)
(***************************************************************************)
DeleteTask(u, id) ==
    LET r == [Request("deleteTask", u) EXCEPT !.task = id]
        act == Activity(u, "DELETE_TASK", "Task", id, Absent)
    IN IF ~authenticate(u) THEN Reply(r, Response(401))
       ELSE IF ~authorize(TaskRouteRoles, u) THEN Reply(r, Response(403))
       ELSE IF id \notin DOMAIN tasks THEN Reply(r, Response(404))
       ELSE /\ Len(detached) < MaxDetached
            /\ detached' = logActivity(act)
            /\ tasks' = [i \in DOMAIN tasks \ {id} |-> tasks[i]]
            /\ req' = r
            /\ res' = [Response(200) EXCEPT !.logged = <<act>>]
            /\ UNCHANGED <<users, customers, notifications, activities, calls, pending>>

(***************************************************************************)
(* DELETE /api/users/:id and DELETE /api/customers/:id (soft deletes)      *)
(***************************************************************************)
DeleteUser(u, id) ==
    LET r == [Request("deleteUser", u) EXCEPT !.target = id]
    IN IF ~authenticate(u) THEN Reply(r, Response(401))
       ELSE IF ~authorize(UserRouteRoles, u) THEN Reply(r, Response(403))
       ELSE IF id \notin DOMAIN users THEN Reply(r, Response(404))
       ELSE IF u = id THEN Reply(r, Response(400))
       ELSE /\ users' = [users EXCEPT ![id].isActive = FALSE]
            /\ req' = r
            /\ res' = Response(200)
            /\ UNCHANGED <<tasks, customers, notifications, activities, detached, calls, pending>>

DeleteCustomer(u, id) ==
    LET r == [Request("deleteCustomer", u) EXCEPT !.target = id]
        act == Activity(u, "DELETE_CUSTOMER", "Customer", 0, id)
    IN IF ~authenticate(u) THEN Reply(r, Response(401))
       ELSE IF ~authorize(CustomerRouteRoles, u) THEN Reply(r, Response(403))
       ELSE IF id \notin DOMAIN customers THEN Reply(r, Response(404))
       ELSE /\ Len(detached) < MaxDetached
            /\ customers' = [customers EXCEPT ![id].isActive = FALSE]
            /\ detached' = logActivity(act)
            /\ req' = r
            /\ res' = [Response(200) EXCEPT !.logged = <<act>>]
            /\ UNCHANGED <<users, tasks, notifications, activities, calls, pending>>

(***************************************************************************)
(* POST /api/customers and PUT /api/customers/:id (of a customer the model *)
(* keeps the company name, the isPrimary flag of each contact, isActive and*)
(* createdBy)                                                              *)
(***************************************************************************)
\* the id the store gives the next customer
newCustomerId ==
    customerId(CHOOSE n \in 1..MaxCustomers :
                  /\ customerId(n) \notin DOMAIN customers
                  /\ \A k \in 1..(n - 1) : customerId(k) \in DOMAIN customers)

\* customerSchema.pre('save'): with no primary contact the first becomes
\* primary; with several, every primary contact after the first position is
\* cleared. Contacts are given by their isPrimary flags; position 1 is the
\* code's index 0.
preSave(contacts) ==
    LET primaryContacts == {k \in DOMAIN contacts : contacts[k]}
    IN IF Cardinality(primaryContacts) = 0
       THEN [contacts EXCEPT ![1] = TRUE]
       ELSE IF Cardinality(primaryContacts) > 1
       THEN [k \in DOMAIN contacts |-> IF k > 1 /\ contacts[k] THEN FALSE ELSE contacts[k]]
       ELSE contacts

\* findOne({ companyName: { $regex: `^${name}$`, $options: 'i' }, isActive:
\* true, _id: { $ne: except } })
sameName(a, b) ==
    Len(a) = Len(b) /\ \A k \in DOMAIN a : toLowerCase(a[k]) = toLowerCase(b[k])

existingCustomer(name, except) ==
    \E c \in DOMAIN customers \ {except} :
        customers[c].isActive /\ sameName(customers[c].companyName, name)

\* a body without companyName and without contacts
NoCustomerBody == [companyName |-> <<>>, hasContacts |-> FALSE, contacts |-> <<>>]

CreateCustomer(u, body) ==
    LET r == Request("createCustomer", u)
        id == newCustomerId
        act == Activity(u, "CREATE_CUSTOMER", "Customer", 0, id)
        customer == [companyName |-> body.companyName, contacts |-> preSave(body.contacts),
                     isActive |-> TRUE, createdBy |-> u]
    IN IF ~authenticate(u) THEN Reply(r, Response(401))
       ELSE IF body.companyName = <<>> \/ ~body.hasContacts \/ Len(body.contacts) < 1
            THEN Reply(r, Response(400))
       ELSE IF existingCustomer(body.companyName, Absent) THEN Reply(r, Response(400))
       ELSE /\ \E n \in 1..MaxCustomers : customerId(n) \notin DOMAIN customers
            /\ Len(detached) < MaxDetached
            /\ customers' = [c \in DOMAIN customers \cup {id} |->
                                IF c = id THEN customer ELSE customers[c]]
            /\ detached' = logActivity(act)
            /\ req' = [r EXCEPT !.target = id]
            /\ res' = [Response(201) EXCEPT !.logged = <<act>>]
            /\ UNCHANGED <<users, tasks, notifications, activities, calls, pending>>

UpdateCustomer(u, id, body) ==
    LET r == [Request("updateCustomer", u) EXCEPT !.target = id]
        act == Activity(u, "UPDATE_CUSTOMER", "Customer", 0, id)
        changed == body.companyName # <<>> \/ body.hasContacts
        logs == IF changed THEN <<act>> ELSE <<>>
    IN IF ~authenticate(u) THEN Reply(r, Response(401))
       ELSE IF ~authorize(CustomerRouteRoles, u) THEN Reply(r, Response(403))
       ELSE IF body.hasContacts /\ Len(body.contacts) < 1 THEN Reply(r, Response(400))
       ELSE IF id \notin DOMAIN customers \/ ~customers[id].isActive
            THEN Reply(r, Response(404))
       ELSE IF body.companyName # <<>> /\ existingCustomer(body.companyName, id)
            THEN Reply(r, Response(400))
       ELSE /\ Len(detached) + Len(logs) <= MaxDetached
            /\ customers' = [customers EXCEPT
                   ![id].companyName = IF body.companyName # <<>> THEN body.companyName ELSE @,
                   ![id].contacts = IF body.hasContacts THEN body.contacts ELSE @]
            /\ detached' = detached \o logs
            /\ req' = r
            /\ res' = [Response(200) EXCEPT !.logged = logs]
            /\ UNCHANGED <<users, tasks, notifications, activities, calls, pending>>

(***************************************************************************)
(* Handlers that run concurrently: a handler is suspended at each await, so *)
(* between the read it decides on and its write the server handles other   *)
(* requests. pending holds the handlers suspended there.                   *)
(***************************************************************************)
\* a task document with every field empty: what a handler that read no task holds
NoTask ==
    [title |-> <<>>, description |-> <<>>, category |-> <<>>, priority |-> Absent,
     status |-> Absent, dueDate |-> 0, assignedTo |-> Absent, customer |-> Absent,
     createdBy |-> Absent, comments |-> <<>>, attachments |-> <<>>]

\* the handler of request number k, suspended before its write, with what it
\* holds in its local variables
Suspended(k, op, u) ==
    [k |-> k, op |-> op, user |-> u, target |-> Absent, task |-> 0,
     body |-> NoCustomerBody, patch |-> NoPatch, read |-> NoTask]

free(k) == \A p \in pending : p.k # k

Suspend(p) ==
    /\ pending' = pending \cup {p}
    /\ UNCHANGED <<users, tasks, customers, calls, notifications, activities, detached,
                   req, res>>

\* POST /api/customers up to the answer of its duplicate check (findOne)
CreateCustomerCheck(k, u, body) ==
    LET r == Request("createCustomer", u)
    IN /\ free(k)
       /\ IF ~authenticate(u) THEN Reply(r, Response(401))
          ELSE IF body.companyName = <<>> \/ ~body.hasContacts \/ Len(body.contacts) < 1
               THEN Reply(r, Response(400))
          ELSE IF existingCustomer(body.companyName, Absent) THEN Reply(r, Response(400))
          ELSE Suspend([Suspended(k, "createCustomer", u) EXCEPT !.body = body])

\* PUT /api/customers/:id up to the answer of its duplicate check (findOne)
UpdateCustomerCheck(k, u, id, body) ==
    LET r == [Request("updateCustomer", u) EXCEPT !.target = id]
    IN /\ free(k)
       /\ IF ~authenticate(u) THEN Reply(r, Response(401))
          ELSE IF ~authorize(CustomerRouteRoles, u) THEN Reply(r, Response(403))
          ELSE IF body.hasContacts /\ Len(body.contacts) < 1 THEN Reply(r, Response(400))
          ELSE IF id \notin DOMAIN customers \/ ~customers[id].isActive
               THEN Reply(r, Response(404))
          ELSE IF body.companyName # <<>> /\ existingCustomer(body.companyName, id)
               THEN Reply(r, Response(400))
          ELSE Suspend([Suspended(k, "updateCustomer", u) EXCEPT !.target = id,
                                                                  !.body = body])

\* PUT /api/tasks/:id up to the answers of findById and of the reference
\* checks
UpdateTaskRead(k, u, id, patch) ==
    LET r == [Request("updateTask", u) EXCEPT !.task = id, !.patch = patch]
        gate == updateTaskGate(u, id, patch)
    IN /\ free(k)
       /\ IF gate # 0 THEN Reply(r, Response(gate))
          ELSE Suspend([Suspended(k, "updateTask", u) EXCEPT !.task = id, !.patch = patch,
                                                             !.read = tasks[id]])

\* customer.save() of a suspended POST /api/customers, to its answer
ResumeCreateCustomer(p) ==
    LET id == newCustomerId
        act == Activity(p.user, "CREATE_CUSTOMER", "Customer", 0, id)
        customer == [companyName |-> p.body.companyName,
                     contacts |-> preSave(p.body.contacts),
                     isActive |-> TRUE, createdBy |-> p.user]
    IN /\ \E n \in 1..MaxCustomers : customerId(n) \notin DOMAIN customers
       /\ Len(detached) < MaxDetached
       /\ customers' = [c \in DOMAIN customers \cup {id} |->
                           IF c = id THEN customer ELSE customers[c]]
       /\ detached' = logActivity(act)
       /\ req' = [Request("createCustomer", p.user) EXCEPT !.target = id]
       /\ res' = [Response(201) EXCEPT !.logged = <<act>>]
       /\ UNCHANGED <<users, tasks, calls, notifications, activities>>

\* findByIdAndUpdate of a suspended PUT /api/customers/:id, to its answer
ResumeUpdateCustomer(p) ==
    LET id == p.target
        act == Activity(p.user, "UPDATE_CUSTOMER", "Customer", 0, id)
        logs == IF p.body.companyName # <<>> \/ p.body.hasContacts THEN <<act>> ELSE <<>>
    IN /\ Len(detached) + Len(logs) <= MaxDetached
       /\ customers' = [customers EXCEPT
              ![id].companyName = IF p.body.companyName # <<>>
                                  THEN p.body.companyName ELSE @,
              ![id].contacts = IF p.body.hasContacts THEN p.body.contacts ELSE @]
       /\ detached' = detached \o logs
       /\ req' = [Request("updateCustomer", p.user) EXCEPT !.target = id]
       /\ res' = [Response(200) EXCEPT !.logged = logs]
       /\ UNCHANGED <<users, tasks, calls, notifications, activities>>

\* findByIdAndUpdate of a suspended PUT /api/tasks/:id, to its answer: the
\* given fields are set in the stored document, the notification compares the
\* body with the document the handler read
ResumeUpdateTask(p) ==
    LET id == p.task
        r == [Request("updateTask", p.user) EXCEPT !.task = id, !.patch = p.patch]
        new == applyUpdates(tasks[id], p.patch)
        ns == updateNotification(p.user, id, p.read, new, p.patch)
        \* the snapshot read before the await, not the document being replaced
        act == updateActivity(p.user, id, p.read, p.patch)
        logs == IF updatedFields(p.patch) # {} THEN <<act>> ELSE <<>>
    IN IF id \notin DOMAIN tasks
       THEN /\ req' = r /\ res' = Response(404)
            /\ UNCHANGED <<users, tasks, customers, calls, notifications, activities,
                           detached>>
       ELSE \E failAt \in FailAts :
            LET saved == savedBeforeThrow(ns, failAt) IN
            /\ Len(notifications) + Len(ns) <= MaxNotifications
            /\ Len(detached) + Len(logs) <= MaxDetached
            /\ tasks' = [tasks EXCEPT ![id] = new]
            /\ notifications' = notifications \o saved
            /\ req' = r
            /\ IF notificationThrows(ns, failAt)
               THEN /\ res' = [Response(500) EXCEPT !.notified = saved]
                    /\ detached' = detached
               ELSE /\ res' = [Response(200) EXCEPT !.tasks = <<id>>,
                                    !.notified = saved, !.logged = logs]
                    /\ detached' = detached \o logs
            /\ UNCHANGED <<users, customers, calls, activities>>

\* a suspended handler goes on from its await to its answer
Resume(p) ==
    /\ p \in pending
    /\ pending' = pending \ {p}
    /\ CASE p.op = "createCustomer" -> ResumeCreateCustomer(p)
         [] p.op = "updateCustomer" -> ResumeUpdateCustomer(p)
         [] OTHER -> ResumeUpdateTask(p)

(***************************************************************************)
(* /api/calls                                                              *)
(***************************************************************************)
\* whether call c matches the query object of GET /api/calls: the role filter
\* is assigned to query.user after the user parameter, replacing it
callQuery(u, user, customer, search, c) ==
    /\ customer # Absent => c.customer = customer
    /\ search # <<>> => regexMatch(search, c.summary)
    /\ IF users[u].role = "user" THEN c.user = u
       ELSE user # Absent => c.user = user

ListCalls(u, user, customer, search, sortOrder, page, limit) ==
    LET r == [Request("listCalls", u) EXCEPT !.search = search, !.target = user]
        found == {id \in DOMAIN calls : callQuery(u, user, customer, search, calls[id])}
    IN IF ~authenticate(u) THEN Reply(r, Response(401))
       ELSE Reply(r, [Response(200) EXCEPT !.calls = pageOf(found, sortOrder, page, limit)])

GetCall(u, id) ==
    LET r == [Request("getCall", u) EXCEPT !.call = id]
    IN IF ~authenticate(u) THEN Reply(r, Response(401))
       ELSE IF id \notin DOMAIN calls THEN Reply(r, Response(404))
       ELSE IF users[u].role = "user" /\ calls[id].user # u THEN Reply(r, Response(403))
       ELSE Reply(r, [Response(200) EXCEPT !.calls = <<id>>])

\* a body without any of the call fields the model keeps (followUpDate 0:
\* undefined)
NoCallBody == [customer |-> Absent, summary |-> <<>>, followUpRequired |-> Undefined,
               followUpDate |-> 0]

\* the id the store gives the next call
newCallId ==
    CHOOSE id \in 1..MaxCalls \ DOMAIN calls : \A j \in 1..MaxCalls \ DOMAIN calls : id <= j

\* callSchema.pre('save')
callPreSave(call) == ~(call.followUpRequired /\ call.followUpDate = 0)

CreateCall(u, body) ==
    LET r == Request("createCall", u)
        id == newCallId
        followUpRequired == IF body.followUpRequired = Undefined THEN Bool(FALSE)
                            ELSE body.followUpRequired
        call == [customer |-> body.customer, user |-> u, summary |-> body.summary,
                 followUpRequired |-> castBoolean(followUpRequired),
                 followUpDate |-> body.followUpDate]
        act == Activity(u, "CREATE_CALL", "Call", id, Absent)
    IN IF ~authenticate(u) THEN Reply(r, Response(401))
       ELSE IF \/ body.customer = Absent \/ body.summary = <<>>
               \/ body.followUpRequired # Undefined /\ ~isBoolean(body.followUpRequired)
            THEN Reply(r, Response(400))
       ELSE IF ~customerIsActive(body.customer) THEN Reply(r, Response(400))
       ELSE IF truthy(followUpRequired) /\ body.followUpDate = 0 THEN Reply(r, Response(400))
       ELSE IF ~callPreSave(call) THEN Reply(r, Response(500))
       ELSE /\ 1..MaxCalls \ DOMAIN calls # {}
            /\ Len(detached) < MaxDetached
            /\ calls' = [i \in DOMAIN calls \cup {id} |-> IF i = id THEN call ELSE calls[i]]
            /\ detached' = logActivity(act)
            /\ req' = [r EXCEPT !.call = id]
            /\ res' = [Response(201) EXCEPT !.calls = <<id>>, !.logged = <<act>>]
            /\ UNCHANGED <<users, tasks, customers, notifications, activities, pending>>

updateCallGateMutant(u, id, body) ==
    IF ~authenticate(u) THEN 401
    ELSE IF body.followUpRequired # Undefined /\ ~isBoolean(body.followUpRequired) THEN 400
    ELSE IF id \notin DOMAIN calls THEN 404
    ELSE IF body.customer # Absent /\ ~customerIsActive(body.customer) THEN 400
    ELSE IF /\ strictlyTrue(body.followUpRequired)
            /\ body.followUpDate = 0 /\ calls[id].followUpDate = 0 THEN 400
    ELSE 0

\* the status the route answers before it touches the store (0: it goes on)
updateCallGate(u, id, body) ==
    IF ~authenticate(u) THEN 401
    ELSE IF body.followUpRequired # Undefined /\ ~isBoolean(body.followUpRequired) THEN 400
    ELSE IF id \notin DOMAIN calls THEN 404
    ELSE IF users[u].role = "user" /\ calls[id].user # u THEN 403
    ELSE IF body.customer # Absent /\ ~customerIsActive(body.customer) THEN 400
    ELSE IF /\ strictlyTrue(body.followUpRequired)
            /\ body.followUpDate = 0 /\ calls[id].followUpDate = 0 THEN 400
    ELSE 0

UpdateCall(u, id, body) ==
    LET r == [Request("updateCall", u) EXCEPT !.call = id]
        gate == updateCallGate(u, id, body)
        act == Activity(u, "UPDATE_CALL", "Call", id, Absent)
        logs == IF body # NoCallBody THEN <<act>> ELSE <<>>
    IN IF gate # 0 THEN Reply(r, Response(gate))
       ELSE /\ Len(detached) + Len(logs) <= MaxDetached
            /\ calls' = [calls EXCEPT
                   ![id].customer = IF body.customer # Absent THEN body.customer ELSE @,
                   ![id].summary = IF body.summary # <<>> THEN body.summary ELSE @,
                   ![id].followUpRequired = IF body.followUpRequired # Undefined
                                            THEN castBoolean(body.followUpRequired) ELSE @,
                   ![id].followUpDate = IF body.followUpDate # 0
                                        THEN body.followUpDate ELSE @]
            /\ detached' = detached \o logs
            /\ req' = r
            /\ res' = [Response(200) EXCEPT !.calls = <<id>>, !.logged = logs]
            /\ UNCHANGED <<users, tasks, customers, notifications, activities, pending>>

(***************************************************************************)
(* PUT /api/users/:id (name and email, which no task rule reads, are left  *)
(* out)                                                                    *)
(***************************************************************************)
\* whether another user than id has the address: User.findOne({ email,
\* _id: { $ne: id } })
emailTaken(email, id) == \E o \in DOMAIN users \ {id} : users[o].email = email

\* PUT /api/users/:id with a body of name, email, role and isActive (isActive
\* 0: not in the body, 1: true, 2: false)
UpdateUserWith(u, id, name, email, role, isActive) ==
    LET r == [Request("updateUser", u) EXCEPT !.target = id, !.patch.status = role,
                                               !.n = isActive]
        admin == users[u].role = "admin"
    IN IF ~authenticate(u) THEN Reply(r, Response(401))
       ELSE IF ~(admin \/ u = id) THEN Reply(r, Response(403))
       ELSE IF email # Absent /\ emailTaken(email, id) THEN Reply(r, Response(400))
       ELSE IF id \notin DOMAIN users THEN Reply(r, Response(404))
       ELSE /\ users' = [users EXCEPT
                            ![id].name = IF name # Absent THEN name ELSE @,
                            ![id].email = IF email # Absent THEN email ELSE @,
                            ![id].role = IF admin /\ role # Absent THEN role ELSE @,
                            ![id].isActive = IF admin /\ isActive # 0 THEN isActive = 1 ELSE @]
            /\ req' = r
            /\ res' = Response(200)
            /\ UNCHANGED <<tasks, customers, notifications, activities, detached, calls, pending>>

\* PUT /api/users/:id with a body of role and isActive only
UpdateUser(u, id, role, isActive) == UpdateUserWith(u, id, Absent, Absent, role, isActive)

(***************************************************************************)
(* /api/auth and POST /api/users                                           *)
(***************************************************************************)
\* the ids the store gives to new users
NewUserIds == {"n1", "n2", "n3"}
newUserId == CHOOSE id \in NewUserIds \ DOMAIN users : TRUE

\* body('password').isLength({ min: 6 }) on the passwords requests carry
Passwords == {"secret", "wrong"}
passwordLength(password) == IF password = "secret" THEN 6 ELSE 5

\* a body of POST /api/auth/register or POST /api/users; role and isActive
\* are what the sender put in it, if anything
UserBody(name, email, password, role, isActive) ==
    [name |-> name, email |-> email, password |-> password, role |-> role,
     isActive |-> isActive]

registeredRoleMutant(body) == IF body.role # Absent THEN body.role ELSE "user"

\* the role of the document new User({ name, email, passwordHash }) makes:
\* the body's role is not passed on, so the schema's default applies
registeredRole(body) == "user"

\* POST /api/auth/register: no authentication
Register(body) ==
    LET r == [Request("register", Absent) EXCEPT !.patch.status = body.role]
        id == newUserId
        user == [name |-> body.name, email |-> body.email,
                 passwordHash |-> hash(body.password),
                 role |-> registeredRole(body), isActive |-> TRUE]
    IN IF passwordLength(body.password) < 6 THEN Reply(r, Response(400))
       ELSE IF emailTaken(body.email, Absent) THEN Reply(r, Response(400))
       ELSE /\ Cardinality(DOMAIN users \ UserIds) < MaxRegistered
            /\ users' = [o \in DOMAIN users \cup {id} |->
                             IF o = id THEN user ELSE users[o]]
            /\ req' = [r EXCEPT !.target = id]
            /\ res' = Response(201)
            /\ UNCHANGED <<tasks, customers, notifications, activities, detached, calls, pending>>

\* POST /api/auth/login: answers a token for the user of the address
Login(email, password) ==
    LET r == Request("login", Absent)
        found == {o \in DOMAIN users : users[o].email = email}
    IN IF \A o \in found : ~users[o].isActive THEN Reply(r, Response(401))
       ELSE IF \A o \in found : ~comparePassword(password, users[o].passwordHash)
            THEN Reply(r, Response(401))
       ELSE Reply([r EXCEPT !.target = CHOOSE o \in found : TRUE], Response(200))

\* PUT /api/auth/profile: only name and email of the body are read
UpdateProfile(u, body) ==
    LET r == [Request("updateProfile", u) EXCEPT !.target = u, !.patch.status = body.role,
                                                  !.n = body.isActive]
    IN IF ~authenticate(u) THEN Reply(r, Response(401))
       ELSE IF body.email # Absent /\ emailTaken(body.email, u) THEN Reply(r, Response(400))
       ELSE /\ users' = [users EXCEPT
                            ![u].name = IF body.name # Absent THEN body.name ELSE @,
                            ![u].email = IF body.email # Absent THEN body.email ELSE @]
            /\ req' = r
            /\ res' = Response(200)
            /\ UNCHANGED <<tasks, customers, notifications, activities, detached, calls, pending>>

\* POST /api/users: the body's role is given to the new user
CreateUser(u, body) ==
    LET r == [Request("createUser", u) EXCEPT !.patch.status = body.role]
        id == newUserId
        user == [name |-> body.name, email |-> body.email,
                 passwordHash |-> hash(body.password),
                 role |-> body.role, isActive |-> TRUE]
    IN IF ~authenticate(u) THEN Reply(r, Response(401))
       ELSE IF ~authorize(UserRouteRoles, u) THEN Reply(r, Response(403))
       ELSE IF passwordLength(body.password) < 6 \/ body.role \notin Roles
            THEN Reply(r, Response(400))
       ELSE IF emailTaken(body.email, Absent) THEN Reply(r, Response(400))
       ELSE /\ Cardinality(DOMAIN users \ UserIds) < MaxRegistered
            /\ users' = [o \in DOMAIN users \cup {id} |->
                             IF o = id THEN user ELSE users[o]]
            /\ req' = [r EXCEPT !.target = id]
            /\ res' = Response(201)
            /\ UNCHANGED <<tasks, customers, notifications, activities, detached, calls, pending>>

(***************************************************************************)
(* Requests                                                                *)
(***************************************************************************)
\* the bodies PUT /api/tasks/:id is tried with: no field, one field, a
\* re-assignment to a user and to a missing one, and two fields at once
Patches ==
    {NoPatch,
     [NoPatch EXCEPT !.title = TitleOps],
     [NoPatch EXCEPT !.status = "completed"],
     [NoPatch EXCEPT !.customer = Ghost],
     [NoPatch EXCEPT !.assignedTo = Ghost],
     [NoPatch EXCEPT !.assignedTo = "u1"],
     [NoPatch EXCEPT !.assignedTo = "u2"],
     [NoPatch EXCEPT !.assignedTo = "u2", !.status = "completed"]}

\* the bodies POST /api/tasks is tried with
NewTasks ==
    {[title |-> TitleOps, description |-> DescAdd, category |-> CatDev,
      priority |-> "medium", status |-> Absent, dueDate |-> 2,
      assignedTo |-> a, customer |-> c] :
        a \in {"a", "u1", Ghost}, c \in {Absent, "c1", Ghost}}


\* the contact lists of a customer body, by the contacts' isPrimary flags:
\* the lists of up to MaxContacts contacts whose contacts after the first
\* carry the same flag
ContactLists ==
    {cs \in UNION {[1..n -> BOOLEAN] : n \in 0..MaxContacts} :
        \A k \in 2..(Len(cs) - 1) : cs[k] = cs[k + 1]}

NameCrm == <<"c", "r", "m">>
NameNew == <<"n", "e", "w">>

CustomerBodies ==
    {[companyName |-> NameNew, hasContacts |-> TRUE, contacts |-> cs] : cs \in ContactLists}
    \cup {[companyName |-> NameCrm, hasContacts |-> TRUE, contacts |-> <<TRUE>>]}

CustomerPatches ==
    {[companyName |-> <<>>, hasContacts |-> TRUE, contacts |-> cs] : cs \in ContactLists}
    \cup {NoCustomerBody, [NoCustomerBody EXCEPT !.companyName = NameNew]}

\* the read routes of the tasks router; an admin changes roles and
\* deactivates users meanwhile
NextRead ==
    \/ \E u \in UserIds, status \in {Absent, "todo"}, priority \in {Absent, "high"},
          assignedTo \in {Absent, "u1"}, customer \in {Absent, "c1"},
          search \in Searches, sortOrder \in {"asc", "desc"},
          pg \in {<<1, 10>>, <<1, 1>>, <<2, 1>>} :
            ListTasks(u, status, priority, assignedTo, customer, search, sortOrder,
                      pg[1], pg[2])
    \/ \E u \in UserIds, id \in TaskIds : GetTask(u, id)
    \/ \E u \in {"a", "m"}, role \in {Absent, "user"}, isActive \in {0, 2} :
            UpdateUser(u, "m", role, isActive)

SpecRead == Init /\ [][NextRead]_vars

\* customer and task writes whose handlers interleave at their awaits
NextRace ==
    \/ \E k \in 1..MaxPending, name \in {NameNew, NameCrm} :
            CreateCustomerCheck(k, "u1", [companyName |-> name, hasContacts |-> TRUE,
                                          contacts |-> <<TRUE>>])
    \/ \E k \in 1..MaxPending, u \in {"m", "u1"}, name \in {NameNew, NameCrm} :
            UpdateCustomerCheck(k, u, "c2", [NoCustomerBody EXCEPT !.companyName = name])
    \/ \E k \in 1..MaxPending, u \in {"a", "m"},
          patch \in {[NoPatch EXCEPT !.title = TitleOps],
                     [NoPatch EXCEPT !.status = "completed"]} :
            UpdateTaskRead(k, u, 1, patch)
    \/ \E p \in pending : Resume(p)
    \/ \E i \in 1..MaxDetached, dbOk \in BOOLEAN : SaveActivity(i, dbOk)

SpecRace == Init /\ [][NextRace]_vars

\* the bodies the user routes are tried with: a free and a taken address, a
\* long enough and a too short password, and with or without a role and an
\* isActive flag the sender adds
UserBodies ==
    {UserBody("Bob", email, password, role, IF role = Absent THEN 0 ELSE 2) :
        email \in {"n@x.io", "a@x.io"}, password \in Passwords,
        role \in {Absent, "admin"}}

\* the routes that write users
NextUsers ==
    \/ \E body \in UserBodies : Register(body)
    \/ \E email \in {"n@x.io", "u1@x.io"}, password \in Passwords : Login(email, password)
    \/ \E u \in {"u1", "n1"}, body \in UserBodies : UpdateProfile(u, body)
    \/ \E u \in {"a", "m", "u1"}, id \in {"a", "u1"}, name \in {Absent, "Bob"},
          role \in {Absent, "admin"} :
            UpdateUserWith(u, id, name, Absent, role, IF role = Absent THEN 2 ELSE 0)
    \/ \E u \in {"a", "m", "u1"}, id \in {"a", "u1"} : DeleteUser(u, id)
    \/ \E u \in {"a", "m"}, body \in UserBodies : CreateUser(u, body)

SpecUsers == Init /\ [][NextUsers]_vars

\* the days the reminder job runs at; the seeded tasks are due at day 1
Days == {0, 1}

\* the notifications router and the reminder job, with the comment route
\* that fills the store
NextNotify ==
    \/ \E u \in {"a", "u1"}, id \in {1} : AddComment(u, id)
    \/ \E u \in {"a", "m", "u1"}, id \in 1..MaxNotifications : MarkRead(u, id)
    \/ \E u \in {"a", "m", "u1"} : MarkAllRead(u)
    \/ \E now \in Days, strictQuery \in BOOLEAN, failAt \in FailAts :
            SendTaskReminders(now, strictQuery, failAt)

SpecNotify == Init /\ [][NextNotify]_vars

\* the values a body gives followUpRequired: none, the booleans, and the
\* string 'true' that the validator lets through
FollowUpValues == {Undefined, Bool(TRUE), Bool(FALSE), Str("true")}

\* the bodies POST /api/calls is tried with
NewCalls ==
    {[customer |-> c, summary |-> TitleOps, followUpRequired |-> f, followUpDate |-> d] :
        c \in {"c1", Ghost}, f \in FollowUpValues, d \in {0, 9}}

\* the bodies PUT /api/calls/:id is tried with
CallPatches ==
    {[customer |-> Absent, summary |-> sm, followUpRequired |-> f, followUpDate |-> d] :
        sm \in {<<>>}, f \in FollowUpValues, d \in {0, 9}}
    \cup {[NoCallBody EXCEPT !.summary = DescAdd], [NoCallBody EXCEPT !.customer = Ghost]}

\* who updates which call: the manager and a user each update a call they
\* logged and a call logged by another principal
CallUpdaters == {<<"m", 1>>, <<"u1", 1>>, <<"u1", 2>>, <<"u2", 2>>}

\* the routes of the calls router that read a call or decide on its user
NextCall ==
    \/ \E u \in UserIds, user \in {Absent, "m"}, search \in {<<>>, <<"c", "r">>},
          pg \in {<<"desc", 1, 10>>, <<"asc", 2, 1>>} :
            ListCalls(u, user, Absent, search, pg[1], pg[2], pg[3])
    \/ \E u \in UserIds, id \in 1..MaxCalls : GetCall(u, id)
    \/ \E w \in CallUpdaters,
          body \in {NoCallBody, [NoCallBody EXCEPT !.summary = DescAdd]} :
            UpdateCall(w[1], w[2], body)

SpecCall == Init /\ [][NextCall]_vars

\* the routes that write the follow-up fields of a call
NextFollowUp ==
    \/ \E u \in {"u2"}, body \in NewCalls : CreateCall(u, body)
    \/ \E u \in {"m", "u1"}, id \in 1..MaxCalls, body \in CallPatches :
            UpdateCall(u, id, body)

SpecFollowUp == Init /\ [][NextFollowUp]_vars

\* the words GET /api/search is asked for; the empty one is falsy
Queries == {<<>>, <<"c", "r", "m">>, <<"O", "P", "S">>, <<"c", "r">>}

\* the search route; an admin changes roles and deactivates users, and a
\* manager soft-deletes a customer meanwhile
NextSearch ==
    \/ \E u \in UserIds, q \in Queries,
          resources \in {{}, {"tasks"}, {"customers"}, {"tasks", "calls"}} :
            Search(u, q, resources)
    \/ \E u \in {"a", "m"}, role \in {Absent, "user"}, isActive \in {0, 2} :
            UpdateUser(u, "m", role, isActive)
    \/ \E u \in {"m", "u1"} : DeleteCustomer(u, "c1")
    \/ \E u \in {"a", "u1"}, search \in Searches, pg \in {<<1, 10>>, <<2, 1>>} :
            ListCustomers(u, search, "asc", pg[1], pg[2])
    \/ \E i \in 1..MaxDetached, dbOk \in BOOLEAN : SaveActivity(i, dbOk)

SpecSearch == Init /\ [][NextSearch]_vars

\* the routes that create, update and delete a task, and the soft deletes
Next ==
    \/ \E u \in UserIds, body \in NewTasks : CreateTask(u, body)
    \/ \E u \in UserIds, id \in TaskIds, patch \in Patches : UpdateTask(u, id, patch)
    \/ \E u \in UserIds, id \in TaskIds, status \in {"pending", "todo"} :
            UpdateTaskStatus(u, id, status)
    \/ \E u \in UserIds, id \in TaskIds : DeleteTask(u, id)
    \/ \E u \in UserIds, id \in {"a", "u1"} : DeleteUser(u, id)
    \/ \E u \in {"m", "u1"} : DeleteCustomer(u, "c1")
    \/ \E i \in 1..MaxDetached, dbOk \in BOOLEAN : SaveActivity(i, dbOk)

Spec == Init /\ [][Next]_vars

\* the comment route, with the detached activity saves
NextComment ==
    \/ \E u \in {"a", "m", "u1"}, id \in {1, MaxTasks} : AddComment(u, id)
    \/ \E i \in 1..MaxDetached, dbOk \in BOOLEAN : SaveActivity(i, dbOk)

SpecComment == Init /\ [][NextComment]_vars

\* the attachment routes, with the detached activity saves
NextAttachment ==
    \/ \E u \in {"u1", "u2"}, id \in TaskIds, n \in 0..MaxFiles : AddAttachment(u, id, n)
    \/ \E u \in {"u1", "u2"}, id \in TaskIds, a \in 1..MaxAttachments :
            RemoveAttachment(u, id, a)
    \/ \E i \in 1..MaxDetached, dbOk \in BOOLEAN : SaveActivity(i, dbOk)

SpecAttachment == Init /\ [][NextAttachment]_vars

\* the customer routes, with the detached activity saves
NextCustomer ==
    \/ \E u \in {"u1"}, body \in CustomerBodies : CreateCustomer(u, body)
    \/ \E u \in {"m", "u1"}, body \in CustomerPatches : UpdateCustomer(u, "c2", body)
    \/ \E i \in 1..MaxDetached, dbOk \in BOOLEAN : SaveActivity(i, dbOk)

SpecCustomer == Init /\ [][NextCustomer]_vars

\* the tokens requests carry: a good one of the admin, of a user and of an id
\* that resolves to no user; a forged and an expired one of the user; none
Tokens ==
    {Token(u, TRUE, FALSE) : u \in {"a", "u1", Ghost}}
    \cup {Token("u1", FALSE, FALSE), Token("u1", TRUE, TRUE), NoToken}

\* routes of every router behind authenticate, while the admin deactivates
\* and reactivates a user
NextAuth ==
    \/ \E token \in Tokens : Handle(token, GetTask(token.userId, 1))
    \/ \E token \in Tokens :
            Handle(token, ListTasks(token.userId, Absent, Absent, Absent, Absent, <<>>,
                                    "asc", 1, 10))
    \/ \E token \in Tokens : Handle(token, AddComment(token.userId, 1))
    \/ \E token \in Tokens :
            Handle(token, UpdateTask(token.userId, 1, [NoPatch EXCEPT !.status = "completed"]))
    \/ \E token \in Tokens :
            Handle(token, CreateCustomer(token.userId,
                       [companyName |-> NameNew, hasContacts |-> TRUE, contacts |-> <<TRUE>>]))
    \/ \E token \in Tokens : Handle(token, DeleteUser(token.userId, "u1"))
    \/ \E token \in Tokens :
            Handle(token, UpdateUser(token.userId, "u1", Absent, 1))

SpecAuth == Init /\ [][NextAuth]_vars

(***************************************************************************)
(* Properties                                                              *)
(***************************************************************************)
\* the request handled last came from an active principal of role user
ByUserRole == req.user \in DOMAIN users /\ users[req.user].isActive
              /\ users[req.user].role = "user"

\* C1: a task list answered to a principal of role user holds only tasks the
\* principal created or is assigned to, whatever the filters, search term,
\* sort order and page of the request.
C1_ListOnlyOwnTasks ==
    (req.op = "listTasks" /\ res.status = 200 /\ ByUserRole)
        => \A k \in DOMAIN res.tasks :
              /\ res.tasks[k] \in DOMAIN tasks
              /\ \/ tasks[res.tasks[k]].createdBy = req.user
                 \/ tasks[res.tasks[k]].assignedTo = req.user

\* a user-role principal searched, got some task back, and a stored task that
\* matches the search term is not theirs
C1_Witness ==
    /\ req.op = "listTasks" /\ res.status = 200 /\ ByUserRole
    /\ req.search # <<>>
    /\ Len(res.tasks) > 0
    /\ \E id \in DOMAIN tasks :
          /\ searchOr(req.search, tasks[id])
          /\ tasks[id].createdBy # req.user /\ tasks[id].assignedTo # req.user

\* C2: updateTask by an active principal of role user who is neither the
\* creator nor the assignee of the stored task is answered 403, and the step
\* changes no task, stores no notification and submits no activity record.
C2_ForbiddenUpdateChangesNothing ==
    [][(/\ req'.op = "updateTask"
        /\ authenticate(req'.user) /\ users[req'.user].role = "user"
        /\ req'.task \in DOMAIN tasks
        /\ tasks[req'.task].createdBy # req'.user
        /\ tasks[req'.task].assignedTo # req'.user)
       => (/\ res'.status = 403
           /\ res'.notified = <<>> /\ res'.logged = <<>>
           /\ tasks' = tasks /\ notifications' = notifications
           /\ activities' = activities /\ detached' = detached)]_vars

\* a user-role principal who does not own the task sent a body with a field
\* to change and was answered 403
C2_Witness ==
    /\ req.op = "updateTask" /\ ByUserRole
    /\ req.task \in DOMAIN tasks
    /\ tasks[req.task].createdBy # req.user /\ tasks[req.task].assignedTo # req.user
    /\ req.patch # NoPatch
    /\ res.status = 403

\* C3: createTask by an active admin or manager, with assignedTo an active
\* principal and customer absent or an active customer, is answered 201 and
\* the new task is stored.
C3_CreateByAdminOrManagerSucceeds ==
    (/\ req.op = "createTask"
     /\ authenticate(req.user) /\ users[req.user].role \in {"admin", "manager"}
     /\ userIsActive(req.patch.assignedTo)
     /\ req.patch.customer # Absent => customerIsActive(req.patch.customer))
    => (/\ res.status = 201
        /\ req.task \in DOMAIN tasks
        /\ tasks[req.task].assignedTo = req.patch.assignedTo
        /\ tasks[req.task].createdBy = req.user)

\* the references of an update body resolve to active documents
ValidReferences(patch) ==
    /\ patch.assignedTo # Absent => userIsActive(patch.assignedTo)
    /\ patch.customer # Absent => customerIsActive(patch.customer)

\* C4: updateTask with a valid body is permitted (not answered 403) exactly
\* when the principal is admin or manager, or created the task, or is its
\* assignee.
C4_UpdateDecisionIsPolicy ==
    [][(/\ req'.op = "updateTask"
        /\ authenticate(req'.user)
        /\ req'.task \in DOMAIN tasks
        /\ ValidReferences(req'.patch))
       => (res'.status # 403
             <=> \/ users[req'.user].role \in {"admin", "manager"}
                 \/ tasks[req'.task].createdBy = req'.user
                 \/ tasks[req'.task].assignedTo = req'.user)]_vars

\* C5: once addComment has stored the comment, the request is answered 200
\* whether or not the notifications and the activity record are persisted,
\* and the comment stays stored.
C5_SideEffectFailureKeepsOutcome ==
    [][(req'.op = "addComment" /\ tasks' # tasks)
       => res'.status = 200]_vars

\* the statuses that report success
Succeeded == res.status \in {200, 201}

\* C6: a successful attachment upload or removal (as every successful task
\* mutation) submits exactly one activity record, with an action the Activity
\* schema accepts.
C6_OneActivityPerMutation ==
    (req.op \in {"createTask", "updateTask", "addComment", "addAttachment",
                 "removeAttachment", "updateTaskStatus", "deleteTask"}
     /\ Succeeded)
    => (/\ Len(res.logged) = 1
        /\ res.logged[1].action \in ActivityActions)

\* the persisted activity records of action DELETE_TASK for task id
DeleteRecords(log, id) ==
    {k \in DOMAIN log : log[k].action = "DELETE_TASK" /\ log[k].taskId = id}

C8_TaskReferencesActive ==
    \A id \in DOMAIN tasks :
        /\ userIsActive(tasks[id].assignedTo)
        /\ tasks[id].customer # Absent => customerIsActive(tasks[id].customer)

\* C9: every stored customer has exactly one contact with isPrimary = true.
C9_ExactlyOnePrimaryContact ==
    \A c \in DOMAIN customers :
        Cardinality({k \in DOMAIN customers[c].contacts : customers[c].contacts[k]}) = 1

C11_CommentNotifiesOthers ==
    [][(req'.op = "addComment" /\ res'.status = 200)
       => LET task == tasks[req'.task]
              expected == {task.createdBy, task.assignedTo} \ {req'.user}
          IN /\ Len(res'.notified) = Cardinality(expected)
             /\ {res'.notified[k].user : k \in DOMAIN res'.notified} = expected
             /\ \A k \in DOMAIN res'.notified :
                    /\ res'.notified[k].type = "COMMENT_ADDED"
                    /\ res'.notified[k].task = req'.task
             /\ notifications' = notifications \o res'.notified]_vars

\* a comment by a third principal on a task whose creator is its assignee
\* was answered 200 with a single notification
C11_Witness ==
    /\ req.op = "addComment" /\ res.status = 200
    /\ tasks[req.task].createdBy = tasks[req.task].assignedTo
    /\ tasks[req.task].createdBy # req.user
    /\ Len(res.notified) = 1

\* C12: a request whose token fails verification, or whose principal does not
\* exist or has isActive = false when the request arrives, is answered 401
\* with no task in the answer, and changes no store.
C12_InactiveIsUnauthenticated ==
    [][(\/ req'.op = "rejected"
        \/ /\ req'.op \notin {"none", "saveActivity"}
           /\ (req'.user \notin DOMAIN users \/ ~users[req'.user].isActive))
       => (/\ res'.status = 401
           /\ res'.tasks = <<>> /\ res'.notified = <<>> /\ res'.logged = <<>>
           /\ UNCHANGED <<users, tasks, customers, calls, notifications,
                          activities, detached>>)]_vars

\* a deactivated user's comment request, with a good token, was answered 401
C12_Witness ==
    /\ req.op = "addComment"
    /\ req.user \in DOMAIN users /\ ~users[req.user].isActive
    /\ res.status = 401

\* C13: a search answered to a principal of role user lists only tasks the
\* principal created or is assigned to and only calls the principal logged,
\* whatever the query and the resources asked for.
C13_SearchOnlyOwnTasksAndCalls ==
    (req.op = "search" /\ res.status = 200 /\ ByUserRole)
        => /\ \A k \in DOMAIN res.tasks :
                 /\ res.tasks[k] \in DOMAIN tasks
                 /\ \/ tasks[res.tasks[k]].createdBy = req.user
                    \/ tasks[res.tasks[k]].assignedTo = req.user
           /\ \A k \in DOMAIN res.calls :
                 /\ res.calls[k] \in DOMAIN calls
                 /\ calls[res.calls[k]].user = req.user

\* a user-role principal searched every resource for a word, got a task
\* back, and a stored task and a stored call with that word are not theirs
C13_Witness ==
    /\ req.op = "search" /\ res.status = 200 /\ ByUserRole
    /\ req.resources = {}
    /\ Len(res.tasks) > 0
    /\ \E id \in DOMAIN tasks :
          /\ textSearch(req.search, <<tasks[id].title, tasks[id].description,
                                      tasks[id].category>>)
          /\ tasks[id].createdBy # req.user /\ tasks[id].assignedTo # req.user
    /\ \E id \in DOMAIN calls :
          /\ textSearch(req.search, <<calls[id].summary>>)
          /\ calls[id].user # req.user

\* C14: a search for customers answered to a principal of role user lists
\* every stored customer that matches the query, whoever created it (the
\* matches being fewer than the page size), as it does for admin or manager.
C14_SearchCustomersNotNarrowed ==
    (req.op = "search" /\ res.status = 200 /\ ByUserRole
     /\ (req.resources = {} \/ "customers" \in req.resources))
        => \A c \in DOMAIN customers :
              textSearch(req.search, <<customers[c].companyName>>)
                 => \E k \in DOMAIN res.customers : res.customers[k] = c

\* C15: a customer create, update or soft delete requested by an active
\* principal of role user is refused (at the least it is not answered 200 or
\* 201), stores and changes no customer and submits no activity record.
C15_UserCannotWriteCustomers ==
    [][(/\ req'.op \in {"createCustomer", "updateCustomer", "deleteCustomer"}
        /\ req'.user \in DOMAIN users /\ users[req'.user].isActive
        /\ users[req'.user].role = "user")
       => (/\ res'.status \notin {200, 201}
           /\ customers' = customers
           /\ detached' = detached /\ activities' = activities)]_vars

\* the principal u may read and update the stored call id
mayAccessCall(u, id) == users[u].role \in {"admin", "manager"} \/ calls[id].user = u

C19_FollowUpHasDate ==
    \A id \in DOMAIN calls : calls[id].followUpRequired => calls[id].followUpDate # 0

\* C17: createTask, or updateTask of a stored task, by an active admin or
\* manager, whose assignedTo is missing or deactivated or whose customer is
\* missing or inactive, is answered 400 (invalid reference), and stores or
\* changes no task, notification or activity record.
C17_InvalidReferenceRejected ==
    [][(/\ \/ req'.op = "createTask" /\ ~userIsActive(req'.patch.assignedTo)
           \/ req'.op = "createTask" /\ req'.patch.customer # Absent
                                      /\ ~customerIsActive(req'.patch.customer)
           \/ req'.op = "updateTask" /\ req'.task \in DOMAIN tasks
                                      /\ ~ValidReferences(req'.patch)
        /\ req'.user \in DOMAIN users /\ users[req'.user].isActive
        /\ users[req'.user].role \in {"admin", "manager"})
       => (/\ res'.status = 400
           /\ tasks' = tasks /\ notifications' = notifications
           /\ detached' = detached /\ activities' = activities)]_vars

\* C18: no two active customers have company names that are equal ignoring
\* case, however the create and update handlers interleave.
C18_ActiveNamesUnique ==
    \A c, d \in DOMAIN customers :
        (c # d /\ customers[c].isActive /\ customers[d].isActive)
            => ~sameName(customers[c].companyName, customers[d].companyName)

\* C20: an updateTask of a stored task by an active admin or manager with
\* valid references, when it is answered, has set every field of its body in
\* the stored task and has left every other field as the store held it just
\* before its write; so of two calls that patch disjoint fields, in whatever
\* order their reads and writes interleave, the stored task carries both.
C20_DisjointPatchesBothKept ==
    [][(/\ req'.op = "updateTask"
        /\ Cardinality(pending') <= Cardinality(pending)
        /\ req'.user \in DOMAIN users /\ users[req'.user].isActive
        /\ users[req'.user].role \in {"admin", "manager"}
        /\ req'.task \in DOMAIN tasks
        /\ ValidReferences(req'.patch))
       => (/\ req'.task \in DOMAIN tasks'
           /\ \A f \in DOMAIN NoPatch :
                  tasks'[req'.task][f] = IF f \in updatedFields(req'.patch)
                                         THEN req'.patch[f]
                                         ELSE tasks[req'.task][f])]_vars

\* C21: a run of the reminder job stores, for every stored task due within
\* the day that follows the run, a new task-reminder notification addressed
\* to the task's assignee.
C21_ReminderForEveryDueTask ==
    [][req'.op = "sendTaskReminders"
       => \A id \in DOMAIN tasks :
             (req'.n <= tasks[id].dueDate /\ tasks[id].dueDate < req'.n + 1)
                => \E k \in DOMAIN notifications' \ DOMAIN notifications :
                      /\ notifications'[k].user = tasks[id].assignedTo
                      /\ notifications'[k].task = id]_vars

\* the notifications of store ns addressed to principal u
addressedTo(ns, u) == {k \in DOMAIN ns : ns[k].user = u}

\* C22: a markAllRead answered 200 leaves every notification addressed to the
\* caller read, and marking all read once more, right after, gives the very
\* same store.
C22_MarkAllReadIdempotent ==
    /\ (req.op = "markAllRead" /\ res.status = 200)
          => /\ \A k \in addressedTo(notifications, req.user) : notifications[k].isRead
             /\ updateMany(notifications, req.user) = notifications
    /\ \A u \in UserIds :
          updateMany(updateMany(notifications, u), u) = updateMany(notifications, u)

\* markAllRead was answered 200 to a principal with two notifications, while
\* a notification of another principal is unread
C22_Witness ==
    /\ req.op = "markAllRead" /\ res.status = 200
    /\ Cardinality(addressedTo(notifications, req.user)) >= 2
    /\ \A k \in addressedTo(notifications, req.user) : notifications[k].isRead

\* the request just answered was a markRead or a markAllRead
MarkStep == req'.op \in {"markRead", "markAllRead"}

\* C23: a markRead of a notification addressed to another principal is
\* answered 404 and changes nothing; a markRead or a markAllRead leaves every
\* notification addressed to another principal as it was, adds and removes
\* none, and changes of a notification nothing but isRead, which it only
\* ever sets to true.
C23_MarkTouchesOnlyOwnIsRead ==
    [][MarkStep
         => /\ DOMAIN notifications' = DOMAIN notifications
            /\ \A k \in DOMAIN notifications :
                  /\ notifications[k].user # req'.user
                        => notifications'[k] = notifications[k]
                  /\ notifications'[k] \in {notifications[k], markRead(notifications[k])}
            /\ (req'.op = "markRead" /\ req'.n \in DOMAIN notifications
                   /\ notifications[req'.n].user # req'.user)
                  => (res'.status \in {401, 404} /\ notifications' = notifications)]_vars

\* a markRead of an unread notification addressed to another principal was
\* answered 404
C23_Witness ==
    /\ req.op = "markRead" /\ res.status = 404
    /\ req.n \in DOMAIN notifications
    /\ notifications[req.n].user # req.user
    /\ ~notifications[req.n].isRead

\* the request just answered is an updateTask by an active admin or manager
\* on a stored task, with a body whose references are valid
PermittedUpdate ==
    /\ req'.op = "updateTask"
    /\ Cardinality(pending') <= Cardinality(pending)
    /\ authenticate(req'.user) /\ users[req'.user].role \in {"admin", "manager"}
    /\ req'.task \in DOMAIN tasks
    /\ ValidReferences(req'.patch)

\* whether the patch gives field f a value other than the stored one
differs(task, patch, f) == f \in updatedFields(patch) /\ patch[f] # task[f]

StatusChange ==
    /\ authenticate(req'.user) /\ users[req'.user].role \in {"admin", "manager"}
    /\ req'.task \in DOMAIN tasks
    /\ req'.patch.status \in Statuses
    /\ \/ req'.op = "updateTaskStatus"
       \/ PermittedUpdate

\* C26: a status change asked by a principal with write access, by updateTask
\* or by the status route, leaves the task in the asked status, whatever its
\* status was.
C26_AnyStatusTransition ==
    [][StatusChange
       => /\ req'.task \in DOMAIN tasks'
          /\ tasks'[req'.task].status = req'.patch.status]_vars

\* the request just answered came from no admin: from nobody, or from a
\* principal whose stored role is not admin
NonAdminRequest ==
    /\ req'.op \in {"register", "login", "updateProfile", "updateUser", "deleteUser",
                    "createUser"}
    /\ req'.user \in DOMAIN users => users[req'.user].role # "admin"

C28_AdminStaysActive ==
    [][(/\ req'.op \in {"deleteUser", "updateUser"}
        /\ authenticate(req'.user) /\ users[req'.user].role = "admin")
       => users'[req'.user].isActive]_vars

\* C29: a listTasks with a search term, answered 200, returns only tasks
\* whose title, description or category matches the term, whatever the role
\* of the caller.
C29_SearchResultsMatchTerm ==
    (req.op = "listTasks" /\ res.status = 200 /\ req.search # <<>>)
        => \A k \in DOMAIN res.tasks :
              /\ res.tasks[k] \in DOMAIN tasks
              /\ searchOr(req.search, tasks[res.tasks[k]])

\* C30: the customers a listCustomers or a search returns are all active,
\* and no step makes an inactive customer active again.
C30_InactiveCustomerNeverListed ==
    [][/\ (req'.op \in {"listCustomers", "search"} /\ res'.status = 200)
          => \A k \in DOMAIN res'.customers :
                /\ res'.customers[k] \in DOMAIN customers'
                /\ customers'[res'.customers[k]].isActive
       /\ \A c \in DOMAIN customers :
             ~customers[c].isActive
                => (c \in DOMAIN customers' /\ ~customers'[c].isActive)]_vars

====
